---- MODULE Spec2Model ----
(***************************************************************************)
(* The edit engine of the visual HTML editor (App, the multi-select       *)
(* version): the live iframe document, the selection set, the bounded     *)
(* undo/redo history with its mirrored refs, and the timers (the 150ms    *)
(* setup step of a document load, the 500ms history debounce).            *)
(*                                                                         *)
(* A document is a sequence of node records in document order; depth      *)
(* gives the nesting (the body is node 1 at depth 0).  A snapshot         *)
(* (markup) is the same sequence without the editor-only fields.          *)
(***************************************************************************)
EXTENDS Integers, Sequences, FiniteSets, TLC

VARIABLES
  doc,            \* live iframe document: Seq of live node records
  listeners,      \* sets of interaction listeners attached to the document
  history,        \* React state `history`: Seq of snapshots
  historyIdx,     \* React state `historyIdx` (0-based, -1 when empty)
  historyRef,     \* historyRef.current, synced by an effect after render
  historyIdxRef,  \* historyIdxRef.current, synced by an effect after render
  canUndo,        \* Toolbar prop, computed at render
  canRedo,        \* Toolbar prop, computed at render
  multiSelected,  \* multiSelectedRef.current: Seq of node refs, insertion order
  selectedEl,     \* selectedElRef.current: a node ref or NoEl
  timers,         \* pending setTimeout callbacks, in arming order
  probe,          \* observer of an undo();redo() round trip
  last,           \* name of the handler that ran last
  ops,            \* number of input events handled so far
  mode,           \* "short": runs of at most MaxOps input events;
                  \* "cap": the run that fills the history to its capacity;
                  \* "page": pointer and keyboard work on a loaded page
  drag,           \* dragState of setupIframeInteraction and the gesture's phase
  didDrag,        \* didDrag of setupIframeInteraction
  hoveredEl,      \* hoveredEl of setupIframeInteraction
  nextId          \* identity of the next element created

vars == <<doc, listeners, history, historyIdx, historyRef, historyIdxRef,
          canUndo, canRedo, multiSelected, selectedEl, timers, probe, last, ops, mode,
          drag, didDrag, hoveredEl, nextId>>

\* the state of the pointer interaction
ui == <<drag, didDrag, hoveredEl, nextId>>

---------------------------------------------------------------------------
(* Bounds of the model *)
MaxOps == 6        \* input events per run (specification Spec)
MaxVal == 2        \* largest attribute value an edit may write (Spec)
MaxPending == 2    \* timeouts pending at the same time
MaxPageOps == 5    \* input events per run (specification SpecPage)
MaxDragOps == 5    \* input events per run (specification SpecDrag)
CapExtra == 2      \* commits beyond the capacity (specification SpecCap)
CapUndo == 2       \* entries undone below the tail (specification SpecCap)

(* Program constant *)
MaxHistory == 50

None == -1
NoEl == [g |-> 0, n |-> 0]

\* dragState as setupIframeInteraction creates it; phase is "idle" with no
\* button held, "pressed" between a press on the selection and its release
\* (onMove/onUp attached), "released" or "dropped" after the release until the
\* click event of the gesture; active is dragState.active; reach tells how far
\* from the press point the pointer has been during the gesture ("none" before
\* the first move, "near" within 5 units on both axes, "far" beyond)
NoDrag == [phase |-> "idle", active |-> FALSE, reach |-> "none",
           shiftHeld |-> FALSE, origMargins |-> <<>>,
           indicator |-> NoEl, targetContainer |-> NoEl, insertBefore |-> NoEl,
           dragLabel |-> NoEl, dropZones |-> {}]

Min(a, b) == IF a < b THEN a ELSE b

---------------------------------------------------------------------------
(* Markup and the live document *)

\* A file of the opened project: body > (p, span); the span's inline style
\* holds a relative url() that the project's blob URLs resolve.
\* mTop/mLeft are the margin offsets of the inline style, ce the contenteditable
\* attribute ("inherit" when absent).
MkNode(t, d, u) ==
  [tag |-> t, depth |-> d, idAttr |-> 0, style |-> 0, mTop |-> 0, mLeft |-> 0,
   url |-> u, text |-> 0, ce |-> "inherit"]
ProjectFile == << MkNode("body", 0, FALSE), MkNode("p", 1, FALSE), MkNode("span", 1, TRUE) >>

\* no data-editor-original-style attribute
NoOrig == [has |-> FALSE, style |-> 0, mTop |-> 0, mLeft |-> 0]

\* processHtmlForEditor: an inline style whose url() is rewritten to a blob URL
\* keeps its original text in data-editor-original-style.
processHtmlForEditor(html) ==
  [i \in DOMAIN html |->
     [tag |-> html[i].tag, depth |-> html[i].depth, idAttr |-> html[i].idAttr,
      style |-> html[i].style, mTop |-> html[i].mTop, mLeft |-> html[i].mLeft,
      url |-> html[i].url, text |-> html[i].text, ce |-> html[i].ce,
      orig |-> IF html[i].url
                 THEN [has |-> TRUE, style |-> html[i].style,
                       mTop |-> html[i].mTop, mLeft |-> html[i].mLeft]
                 ELSE NoOrig]]

\* --- the HTML parser behind doc.write ---

\* the elements serialized without an end tag
NoEndTag == {"br", "hr", "img", "input", "meta", "link"}

\* the start tags that close an open <p> (HTML tree construction)
ClosesP == {"address", "article", "aside", "blockquote", "div", "dl", "fieldset",
            "footer", "form", "h1", "h2", "h3", "h4", "h5", "h6", "header", "hr",
            "main", "nav", "ol", "p", "pre", "section", "table", "ul"}

\* the <p> element the parser creates for an end tag </p> without an open <p>
EmptyP(dp) ==
  [tag |-> "p", depth |-> dp, idAttr |-> 0, style |-> 0, mTop |-> 0, mLeft |-> 0,
   url |-> FALSE, text |-> 0, ce |-> "inherit", orig |-> NoOrig]

\* the end tags of the open elements `st` from the innermost down to depth dp
RECURSIVE EndTags(_, _)
EndTags(st, dp) ==
  IF Len(st) <= dp THEN <<>>
  ELSE << [start |-> FALSE, tag |-> st[Len(st)]] >> \o EndTags(SubSeq(st, 1, Len(st) - 1), dp)

\* the markup as the sequence of start and end tags of the nodes i.. of html,
\* st being the tags of the elements open before node i
RECURSIVE TagsOf(_, _, _)
TagsOf(html, i, st) ==
  IF i > Len(html) THEN EndTags(st, 0)
  ELSE LET dp == html[i].depth
           open == SubSeq(st, 1, Min(Len(st), dp))
       IN EndTags(st, dp)
            \o << [start |-> TRUE, tag |-> html[i].tag, nd |-> html[i]] >>
            \o TagsOf(html, i + 1,
                      IF html[i].tag \in NoEndTag THEN open ELSE Append(open, html[i].tag))

\* the open elements left when the innermost element with tag t has been closed
PopTo(stack, t) ==
  SubSeq(stack, 1, (CHOOSE j \in DOMAIN stack :
                      stack[j] = t /\ \A k \in DOMAIN stack : stack[k] = t => k <= j) - 1)

IsOpen(stack, t) == \E j \in DOMAIN stack : stack[j] = t

\* tree construction over the tags k.. of toks: out are the elements created so
\* far, stack the tags of the open elements
RECURSIVE Construct(_, _, _, _)
Construct(toks, k, out, stack) ==
  IF k > Len(toks) THEN out
  ELSE LET t == toks[k]
       IN IF t.start
            THEN LET s1 == IF t.tag \in ClosesP /\ IsOpen(stack, "p")
                             THEN PopTo(stack, "p") ELSE stack
                 IN Construct(toks, k + 1, Append(out, [t.nd EXCEPT !.depth = Len(s1)]),
                              IF t.tag \in NoEndTag THEN s1 ELSE Append(s1, t.tag))
          ELSE IF IsOpen(stack, t.tag)
            THEN Construct(toks, k + 1, out, PopTo(stack, t.tag))
          ELSE IF t.tag = "p"
            THEN Construct(toks, k + 1, Append(out, EmptyP(Len(stack))), stack)
          ELSE Construct(toks, k + 1, out, stack)

\* the elements the parser builds from the markup html
HtmlParse(html) == Construct(TagsOf(html, 1, <<>>), 1, <<>>, <<>>)

\* doc.open(); doc.write(processed); doc.close(): the markup is parsed into
\* fresh elements, no editor marks
docWrite(html) ==
  LET processed == HtmlParse(html)
  IN
  [i \in DOMAIN processed |->
     [id |-> i, tag |-> processed[i].tag, depth |-> processed[i].depth,
      idAttr |-> processed[i].idAttr, style |-> processed[i].style,
      mTop |-> processed[i].mTop, mLeft |-> processed[i].mLeft,
      url |-> processed[i].url, text |-> processed[i].text, ce |-> processed[i].ce,
      orig |-> processed[i].orig, sel |-> FALSE, cls |-> {}, blur |-> 0]]

\* elements the editor injects during a drag (insertion indicator, drag label)
Injected(nd) == nd.cls \cap {"indicator", "label"} # {}

\* serializeDocument: the clone without the injected elements and the editor
\* marks, with the original inline style restored wherever
\* data-editor-original-style is present
serializeDocument(d) ==
  LET c == SelectSeq(d, LAMBDA nd : ~Injected(nd))
  IN [i \in DOMAIN c |->
        [tag |-> c[i].tag, depth |-> c[i].depth, idAttr |-> c[i].idAttr,
         style |-> IF c[i].orig.has THEN c[i].orig.style ELSE c[i].style,
         mTop |-> IF c[i].orig.has THEN c[i].orig.mTop ELSE c[i].mTop,
         mLeft |-> IF c[i].orig.has THEN c[i].orig.mLeft ELSE c[i].mLeft,
         url |-> c[i].url, text |-> c[i].text, ce |-> c[i].ce]]

\* variant: isEditable that accepts every tag
isEditable_Any(tag) == tag # ""

isEditable(tag) ==
  tag \notin {"html", "head", "meta", "link", "script", "style", "title", "br", "hr"}

\* An element reference: g = 1 for an element created by the latest doc.write,
\* g = 0 for an element of a document that doc.write has since replaced.
RefOf(d, i) == [g |-> 1, n |-> d[i].id]
Stale(el) == IF el = NoEl THEN NoEl ELSE [g |-> 0, n |-> el.n]

\* position of the element `el` in the live document, 0 when not connected
PosOf(d, el) ==
  IF el.g = 1 /\ \E i \in DOMAIN d : d[i].id = el.n
    THEN CHOOSE i \in DOMAIN d : d[i].id = el.n
    ELSE 0

isConnected(d, el) == PosOf(d, el) # 0

\* --- the tree behind the document order ---

\* positions of the descendants of the node at position i
Below(d, i) == {j \in DOMAIN d : j > i /\ \A k \in (i + 1)..j : d[k].depth > d[i].depth}

\* last position of the subtree rooted at position i
End(d, i) == i + Cardinality(Below(d, i))

\* position of the parent element, 0 for the root
ParentPos(d, i) ==
  IF \E j \in 1..(i - 1) : d[j].depth < d[i].depth
    THEN CHOOSE j \in 1..(i - 1) :
           /\ d[j].depth < d[i].depth
           /\ \A k \in (j + 1)..(i - 1) : d[k].depth >= d[i].depth
    ELSE 0

\* positions of the child elements of the node at position c, in order
Positions(d) == [k \in 1..Len(d) |-> k]
ChildrenPos(d, c) == SelectSeq(Positions(d), LAMBDA j : j > c /\ ParentPos(d, j) = c)

\* positions of the node at position i and of its ancestors
SelfAndAncestors(d, i) == {j \in DOMAIN d : j = i \/ i \in Below(d, j)}

\* the subtree at position i, and the document without it
SubOf(d, i) == SubSeq(d, i, End(d, i))
Cut(d, i) == SubSeq(d, 1, i - 1) \o SubSeq(d, End(d, i) + 1, Len(d))

\* the subtree `sub` with its root moved to depth dp
Rebase(sub, dp) == [k \in DOMAIN sub |-> [sub[k] EXCEPT !.depth = @ - sub[1].depth + dp]]

\* the document with the nodes `sub` inserted so that they start at position pos
InsertAt(d, pos, sub) == SubSeq(d, 1, pos - 1) \o sub \o SubSeq(d, pos, Len(d))

SeqToSet(s) == {s[i] : i \in DOMAIN s}
Has(s, x) == \E i \in DOMAIN s : s[i] = x
Without(s, x) == SelectSeq(s, LAMBDA y : y # x)

---------------------------------------------------------------------------
(* Selection *)

\* multi.forEach(e => remove data-editor-selected / __editor_selected__)
Unmark(d, multi) ==
  [i \in DOMAIN d |-> IF Has(multi, RefOf(d, i)) THEN [d[i] EXCEPT !.sel = FALSE] ELSE d[i]]

SetSel(d, el, v) ==
  [i \in DOMAIN d |-> IF RefOf(d, i) = el THEN [d[i] EXCEPT !.sel = v] ELSE d[i]]

TagOf(d, el) == IF isConnected(d, el) THEN d[PosOf(d, el)].tag ELSE "div"

Last(s) == IF Len(s) > 0 THEN s[Len(s)] ELSE NoEl

\* variant: selectElement whose toggle-off leaves the primary element as it was
selectElement_KeepPrimary(S, el, add) ==
  IF el = NoEl \/ ~isEditable(TagOf(S.doc, el))
    THEN [doc |-> Unmark(S.doc, S.multi), multi |-> <<>>, prim |-> NoEl]
  ELSE IF add
    THEN IF Has(S.multi, el)
           THEN [doc |-> SetSel(S.doc, el, FALSE), multi |-> Without(S.multi, el),
                 prim |-> S.prim]
           ELSE [doc |-> SetSel(S.doc, el, TRUE), multi |-> Append(S.multi, el), prim |-> el]
    ELSE [doc |-> SetSel(Unmark(S.doc, S.multi), el, TRUE), multi |-> <<el>>, prim |-> el]

\* variant: selectElement whose toggle-off of the primary picks the oldest member
selectElement_FirstRemaining(S, el, add) ==
  IF el = NoEl \/ ~isEditable(TagOf(S.doc, el))
    THEN [doc |-> Unmark(S.doc, S.multi), multi |-> <<>>, prim |-> NoEl]
  ELSE IF add
    THEN IF Has(S.multi, el)
           THEN LET rest == Without(S.multi, el)
                IN [doc |-> SetSel(S.doc, el, FALSE), multi |-> rest,
                    prim |-> IF S.prim = el
                               THEN (IF rest = <<>> THEN NoEl ELSE rest[1])
                               ELSE S.prim]
           ELSE [doc |-> SetSel(S.doc, el, TRUE), multi |-> Append(S.multi, el), prim |-> el]
    ELSE [doc |-> SetSel(Unmark(S.doc, S.multi), el, TRUE), multi |-> <<el>>, prim |-> el]

\* selectElement(el, addToSelection) on the state S = [doc, multi, prim]
selectElement(S, el, add) ==
  IF el = NoEl \/ ~isEditable(TagOf(S.doc, el))
    THEN [doc |-> Unmark(S.doc, S.multi), multi |-> <<>>, prim |-> NoEl]
  ELSE IF add
    THEN IF Has(S.multi, el)
           THEN LET rest == Without(S.multi, el)
                IN [doc |-> SetSel(S.doc, el, FALSE), multi |-> rest,
                    prim |-> IF S.prim = el THEN Last(rest) ELSE S.prim]
           ELSE [doc |-> SetSel(S.doc, el, TRUE), multi |-> Append(S.multi, el), prim |-> el]
    ELSE [doc |-> SetSel(Unmark(S.doc, S.multi), el, TRUE), multi |-> <<el>>, prim |-> el]

\* refreshSelectedInfo on the state S
refreshSelectedInfo(S) ==
  LET kept == SelectSeq(S.multi, LAMBDA e : isConnected(S.doc, e))
  IN [doc |-> S.doc, multi |-> kept,
      prim |-> IF S.prim # NoEl /\ isConnected(S.doc, S.prim) THEN S.prim ELSE Last(kept)]

Here == [doc |-> doc, multi |-> multiSelected, prim |-> selectedEl]

---------------------------------------------------------------------------
(* History *)

\* variant: pushHistory without the capacity check
pushHistoryList_NoCap(h, idx, html) ==
  SubSeq(h, 1, Min(idx + 1, Len(h))) \o <<html>>

\* variant: pushHistory that keeps the entries after the index
pushHistoryList_NoSlice(h, idx, html) ==
  LET newHistory == h \o <<html>>
  IN IF Len(newHistory) > MaxHistory THEN Tail(newHistory) ELSE newHistory

\* the list pushHistory hands to setHistory
pushHistoryList(h, idx, html) ==
  LET newHistory == SubSeq(h, 1, Min(idx + 1, Len(h))) \o <<html>>
  IN IF Len(newHistory) > MaxHistory THEN Tail(newHistory) ELSE newHistory

\* pushHistory(), called when the live document is d
pushHistory(d) ==
  LET newHistory == pushHistoryList(historyRef, historyIdxRef, serializeDocument(d))
  IN /\ history' = newHistory
     /\ historyIdx' = Len(newHistory) - 1

NoPush == UNCHANGED <<history, historyIdx>>

\* h[i] of the JavaScript array h (0-based); reading past the end gives
\* undefined, which DOMParser parses as the text "undefined" in an empty body
UndefinedFile == << [tag |-> "body", depth |-> 0, idAttr |-> 0, style |-> 0,
                     mTop |-> 0, mLeft |-> 0, url |-> FALSE, text |-> None,
                     ce |-> "inherit"] >>
At(h, i) == IF (i + 1) \in DOMAIN h THEN h[i + 1] ELSE UndefinedFile

---------------------------------------------------------------------------
(* Timers *)

\* an input event named n is handled (counted against the run's budget)
Event(n) ==
  /\ \/ mode = "cap"
     \/ ops < (CASE mode = "page" -> MaxPageOps [] mode = "drag" -> MaxDragOps [] OTHER -> MaxOps)
  /\ ops' = IF mode = "cap" THEN ops ELSE ops + 1
  /\ last' = n
  /\ mode' = mode

Timer(k, a, b) == [kind |-> k, add |-> a, by |-> b, fresh |-> TRUE]

\* A timeout fires only after the render pass that its arming handler scheduled;
\* the 500ms timeouts fire in arming order and never overtake an earlier timeout,
\* the 150ms ones fire in arming order among themselves.
CanFire(k) ==
  /\ k \in DOMAIN timers
  /\ ~timers[k].fresh
  /\ IF timers[k].kind = "setup"
        THEN \A j \in 1..(k - 1) : timers[j].kind # "setup"
        ELSE k = 1

RemoveAt(s, k) == SubSeq(s, 1, k - 1) \o SubSeq(s, k + 1, Len(s))

\* variant: the timeout is armed without clearing the previous one
rearm_NoClear(ts, k) == Append(ts, Timer(k, TRUE, k))

\* clearTimeout(f._timer); f._timer = setTimeout(() => pushHistory(), 500)
rearm(ts, k) == Append(SelectSeq(ts, LAMBDA t : t.kind # k), Timer(k, TRUE, k))

Idle == [phase |-> "idle", mark |-> <<>>]

---------------------------------------------------------------------------
(* Initial state: the app is mounted, the iframe holds an empty document *)

EmptyFile == << MkNode("body", 0, FALSE) >>

Init ==
  /\ doc = docWrite(processHtmlForEditor(EmptyFile))
  /\ listeners = 0
  /\ history = <<>>
  /\ historyIdx = -1
  /\ historyRef = <<>>
  /\ historyIdxRef = -1
  /\ canUndo = FALSE
  /\ canRedo = FALSE
  /\ multiSelected = <<>>
  /\ selectedEl = NoEl
  /\ timers = <<>>
  /\ probe = Idle
  /\ last = "mount"
  /\ ops = 0
  /\ mode = "short"
  /\ drag = NoDrag
  /\ didDrag = FALSE
  /\ hoveredEl = NoEl
  /\ nextId = 2

---------------------------------------------------------------------------
(* Render pass and its effects *)

Synced == historyRef = history /\ historyIdxRef = historyIdx

\* React re-renders App: the Toolbar props are recomputed and the effects copy
\* history / historyIdx into their refs.
Render ==
  /\ \/ ~Synced
     \/ \E k \in DOMAIN timers : timers[k].fresh
     \/ canUndo # (historyIdx > 0)
     \/ canRedo # (historyIdx < Len(history) - 1)
  /\ historyRef' = history
  /\ historyIdxRef' = historyIdx
  /\ canUndo' = (historyIdx > 0)
  /\ canRedo' = (historyIdx < Len(history) - 1)
  /\ timers' = [k \in DOMAIN timers |-> [timers[k] EXCEPT !.fresh = FALSE]]
  /\ last' = "render"
  /\ UNCHANGED ui
  /\ UNCHANGED <<doc, listeners, history, historyIdx, multiSelected, selectedEl, probe, ops, mode>>

---------------------------------------------------------------------------
(* Loading a document *)

\* loadProcessedHtml(processedHtml, addToHistory): the synchronous part
loadProcessedHtml(processed, add, by) ==
  /\ listeners' = 0
  /\ doc' = docWrite(processed)
  /\ multiSelected' = [i \in DOMAIN multiSelected |-> Stale(multiSelected[i])]
  /\ selectedEl' = Stale(selectedEl)
  /\ timers' = Append(timers, Timer("setup", add, by))
  /\ drag' = NoDrag
  /\ didDrag' = FALSE
  /\ hoveredEl' = NoEl
  /\ nextId' = Len(docWrite(processed)) + 1

\* loadProjectHtml(htmlPath, rawHtml, css, blobs)
loadProjectHtml ==
  /\ Event("loadProjectHtml")
  /\ Len(timers) < MaxPending
  /\ history' = <<>>
  /\ historyIdx' = -1
  /\ loadProcessedHtml(processHtmlForEditor(ProjectFile), TRUE, "load")
  /\ probe' = Idle
  /\ UNCHANGED <<historyRef, historyIdxRef, canUndo, canRedo>>

\* the setTimeout(..., 150) callback of loadProcessedHtml
setupFire ==
  \E k \in DOMAIN timers :
    /\ CanFire(k)
    /\ timers[k].kind = "setup"
    /\ listeners' = listeners + 1
    /\ IF timers[k].add THEN pushHistory(doc) ELSE NoPush
    /\ LET S == selectElement(Here, NoEl, FALSE)
       IN /\ doc' = S.doc
          /\ multiSelected' = S.multi
          /\ selectedEl' = S.prim
    /\ timers' = RemoveAt(timers, k)
    /\ last' = "setup"
    /\ UNCHANGED ui
    /\ UNCHANGED <<historyRef, historyIdxRef, canUndo, canRedo, probe, ops, mode>>

---------------------------------------------------------------------------
(* Undo / redo *)

\* variant: undo() that also acts at index 0
undo_AtZero ==
  /\ Len(timers) < MaxPending
  /\ historyIdxRef >= 0
  /\ LET newIdx == historyIdxRef - 1
         cleanHtml == At(historyRef, newIdx)
     IN /\ historyIdx' = newIdx
        /\ loadProcessedHtml(processHtmlForEditor(cleanHtml), FALSE, "undo")
  /\ probe' = Idle
  /\ UNCHANGED <<history, historyRef, historyIdxRef, canUndo, canRedo>>

\* variant: undo() whose reload commits the reloaded document
undo_Commits ==
  /\ Len(timers) < MaxPending
  /\ historyIdxRef > 0
  /\ LET newIdx == historyIdxRef - 1
         cleanHtml == At(historyRef, newIdx)
     IN /\ historyIdx' = newIdx
        /\ loadProcessedHtml(processHtmlForEditor(cleanHtml), TRUE, "undo")
  /\ probe' = Idle
  /\ UNCHANGED <<history, historyRef, historyIdxRef, canUndo, canRedo>>

\* undo()
undo ==
  /\ Len(timers) < MaxPending
  /\ historyIdxRef > 0
  /\ LET newIdx == historyIdxRef - 1
         cleanHtml == At(historyRef, newIdx)
     IN /\ historyIdx' = newIdx
        /\ loadProcessedHtml(processHtmlForEditor(cleanHtml), FALSE, "undo")
  /\ probe' = IF Synced /\ historyIdx = Len(history) - 1
                THEN [phase |-> "undone", mark |-> serializeDocument(doc)]
                ELSE Idle
  /\ UNCHANGED <<history, historyRef, historyIdxRef, canUndo, canRedo>>

redo ==
  /\ Len(timers) < MaxPending
  /\ historyIdxRef < Len(historyRef) - 1
  /\ LET newIdx == historyIdxRef + 1
         cleanHtml == At(historyRef, newIdx)
     IN /\ historyIdx' = newIdx
        /\ loadProcessedHtml(processHtmlForEditor(cleanHtml), FALSE, "redo")
  /\ probe' = IF probe.phase = "undone" THEN [probe EXCEPT !.phase = "redone"] ELSE Idle
  /\ UNCHANGED <<history, historyRef, historyIdxRef, canUndo, canRedo>>

\* an undo() call that takes the early return (idx <= 0)
undoNoop ==
  /\ historyIdxRef <= 0
  /\ UNCHANGED ui
  /\ UNCHANGED <<doc, listeners, history, historyIdx, historyRef, historyIdxRef,
                 canUndo, canRedo, multiSelected, selectedEl, timers, probe>>

redoNoop ==
  /\ historyIdxRef >= Len(historyRef) - 1
  /\ UNCHANGED ui
  /\ UNCHANGED <<doc, listeners, history, historyIdx, historyRef, historyIdxRef,
                 canUndo, canRedo, multiSelected, selectedEl, timers, probe>>

Undo == Event("undo") /\ (undo \/ undoNoop)
Redo == Event("redo") /\ (redo \/ redoNoop)

---------------------------------------------------------------------------
(* Pointer input *)

\* onClick of one listener set, on the node at position i of the document
onClick(S, i, ctrl) ==
  IF S.doc[i].tag = "body"
    THEN selectElement(S, NoEl, FALSE)
    ELSE selectElement(S, RefOf(S.doc, i), ctrl)

\* every attached listener set handles the click, in attachment order
RECURSIVE onClickAll(_, _, _, _)
onClickAll(S, i, ctrl, n) ==
  IF n = 0 THEN S ELSE onClickAll(onClick(S, i, ctrl), i, ctrl, n - 1)

\* the nodes the pointer can hit: the injected elements and the drag ghosts
\* have pointer-events: none, which the descendants of a ghost inherit
Targets(d) ==
  LET G == {j \in DOMAIN d : d[j].cls \cap {"indicator", "label", "ghost"} # {}}
  IN IF G = {} THEN DOMAIN d
     ELSE {i \in DOMAIN d : i \notin G /\ \A j \in G : i \notin Below(d, j)}

\* the node in text-edit mode (contentEditable = 'true', focused)
Editing(d) == {i \in DOMAIN d : d[i].ce = "true"}

\* variant: a blur listener that leaves the node editable
onBlur_StayEditable(S, P) == refreshSelectedInfo(S)

\* the blur listeners of the nodes at positions P run: onBlur of onDblClick
onBlur(S, P) ==
  refreshSelectedInfo(
    [S EXCEPT !.doc = [i \in DOMAIN S.doc |->
                         IF i \in P THEN [S.doc[i] EXCEPT !.ce = "false", !.blur = 0]
                                    ELSE S.doc[i]]])

\* a press on the node at position i takes the focus from the node in
\* text-edit mode, unless that node is the one pressed
Unfocused(d, i) == {j \in Editing(d) : j # i /\ i \notin Below(d, j) /\ d[j].blur > 0}

\* variant: onClick without the didDrag check
Suppressed_Never == FALSE

\* if (didDrag) { didDrag = false; return; }
Suppressed == didDrag

\* the gesture is over but its click event has not been dispatched yet
\* ("dropped" when the release ended an active drag)
AwaitingClick == drag.phase \in {"released", "dropped"}

\* a click on the node at position i, with or without Ctrl/Meta
ClickAt(i, ctrl) ==
  /\ Event("click")
  /\ listeners > 0
  /\ drag.phase \in {"idle", "released", "dropped"}
  /\ LET B == IF Unfocused(doc, i) # {} THEN onBlur(Here, Unfocused(doc, i)) ELSE Here
         S == IF Suppressed THEN B ELSE onClickAll(B, i, ctrl, listeners)
     IN /\ doc' = S.doc
        /\ multiSelected' = S.multi
        /\ selectedEl' = S.prim
        /\ IF Unfocused(doc, i) # {} THEN pushHistory(B.doc) ELSE NoPush
  /\ didDrag' = FALSE
  /\ drag' = [drag EXCEPT !.phase = "idle"]
  /\ probe' = IF Unfocused(doc, i) # {} THEN Idle ELSE probe
  /\ UNCHANGED <<hoveredEl, nextId>>
  /\ UNCHANGED <<listeners, historyRef, historyIdxRef, canUndo, canRedo, timers>>

Click == \E i \in Targets(doc), ctrl \in BOOLEAN : ClickAt(i, ctrl)

---------------------------------------------------------------------------
(* Keyboard shortcuts and the structural operations they call *)

MinOf(P) == CHOOSE x \in P : \A y \in P : x <= y
MaxOf(P) == CHOOSE x \in P : \A y \in P : x >= y

\* the document reduced to the positions in `keep` (an ascending sequence)
Pick(d, keep) == [k \in DOMAIN keep |-> d[keep[k]]]

\* el.nextElementSibling || el.previousElementSibling of the node at position i
\* when the elements with identities in R have been removed from their parents;
\* the identity of the sibling, 0 for null
SiblingOf(d, i, R) ==
  LET c == ChildrenPos(d, ParentPos(d, i))
      left == {c[k] : k \in DOMAIN c} \ {j \in DOMAIN d : d[j].id \in R}
      next == {j \in left : j > i}
      prev == {j \in left : j < i}
  IN IF next # {} THEN d[MinOf(next)].id
     ELSE IF prev # {} THEN d[MaxOf(prev)].id
     ELSE 0

\* the loop of deleteSelected over the selection m (insertion order), from its
\* k-th element on: R are the identities removed so far, nf is nextFocus
RECURSIVE deleteLoop(_, _, _, _, _)
deleteLoop(d, m, k, R, nf) ==
  IF k > Len(m) THEN [R |-> R, nf |-> nf]
  ELSE LET i == PosOf(d, m[k])
       IN IF i = 0 \/ m[k].n \in R
            THEN deleteLoop(d, m, k + 1, R, nf)
            ELSE deleteLoop(d, m, k + 1, R \cup {m[k].n},
                            IF nf = 0 THEN SiblingOf(d, i, R) ELSE nf)

\* deleteSelected on the state S
deleteSelected(S) ==
  LET r == deleteLoop(S.doc, S.multi, 1, {}, 0)
      gone == {i \in DOMAIN S.doc :
                 \E j \in DOMAIN S.doc : S.doc[j].id \in r.R /\ i \in ({j} \cup Below(S.doc, j))}
      d1 == Pick(S.doc, SelectSeq(Positions(S.doc), LAMBDA i : i \notin gone))
      nextFocus == [g |-> 1, n |-> r.nf]
      T == [doc |-> d1, multi |-> <<>>, prim |-> S.prim]
  IN IF r.nf # 0 /\ isConnected(d1, nextFocus) /\ isEditable(TagOf(d1, nextFocus))
       THEN selectElement(T, nextFocus, FALSE)
       ELSE selectElement(T, NoEl, FALSE)

\* clone.id = clone.id + '-copy'
CopySuffix == 10
CopyId(v) == IF v = 0 THEN 0 ELSE v + CopySuffix

\* el.cloneNode(true) of the subtree `sub`, its elements identified from nid on;
\* the root loses the selected mark and gets the -copy id, listeners are not
\* cloned
CloneOf(sub, nid) ==
  [k \in DOMAIN sub |->
     IF k = 1
       THEN [sub[k] EXCEPT !.id = nid, !.sel = FALSE, !.idAttr = CopyId(@), !.blur = 0]
       ELSE [sub[k] EXCEPT !.id = nid + k - 1, !.blur = 0]]

\* the selection in document order (elements out of the document are skipped)
Sorted(d, m) ==
  Pick(d, SelectSeq(Positions(d), LAMBDA i : Has(m, RefOf(d, i))))

\* the loop of duplicateSelected over the identities in `ids`: each clone is
\* inserted right after its original
RECURSIVE duplicateLoop(_, _, _, _, _)
duplicateLoop(d, ids, k, nid, clones) ==
  IF k > Len(ids) THEN [doc |-> d, nid |-> nid, clones |-> clones]
  ELSE LET i == PosOf(d, [g |-> 1, n |-> ids[k]])
           c == CloneOf(SubOf(d, i), nid)
       IN duplicateLoop(InsertAt(d, End(d, i) + 1, c), ids, k + 1, nid + Len(c),
                        Append(clones, [g |-> 1, n |-> nid]))

RECURSIVE selectEach(_, _, _)
selectEach(S, els, k) ==
  IF k > Len(els) THEN S ELSE selectEach(selectElement(S, els[k], TRUE), els, k + 1)

\* duplicateSelected on the state S; the result carries the next identity
duplicateSelected(S, nid) ==
  LET srt == Sorted(S.doc, S.multi)
      r == duplicateLoop(S.doc, [k \in DOMAIN srt |-> srt[k].id], 1, nid, <<>>)
      T == selectEach(selectElement([S EXCEPT !.doc = r.doc], NoEl, FALSE), r.clones, 1)
  IN [doc |-> T.doc, multi |-> T.multi, prim |-> T.prim, nid |-> r.nid]

\* changeTag(newTag) on the state S with the primary element connected
changeTag(S, newTag, nid) ==
  LET i == PosOf(S.doc, S.prim)
      newEl == [g |-> 1, n |-> nid]
      d1 == [S.doc EXCEPT ![i] = [@ EXCEPT !.tag = newTag, !.id = nid, !.blur = 0]]
      m1 == IF Has(S.multi, S.prim) THEN Append(Without(S.multi, S.prim), newEl) ELSE S.multi
  IN selectElement([doc |-> d1, multi |-> m1, prim |-> S.prim], newEl, FALSE)

\* Ctrl+A: selectElement(null), then every editable element of the body that
\* has an offsetParent is added (the drag label is position: fixed)
selectAll(S) ==
  LET d == S.doc
      all == SelectSeq(Positions(d), LAMBDA i :
                 d[i].depth > 0 /\ isEditable(d[i].tag) /\ "label" \notin d[i].cls)
  IN selectEach(selectElement(S, NoEl, FALSE), [k \in DOMAIN all |-> RefOf(d, all[k])], 1)

\* the handler leaves the state S; `push` tells whether it called pushHistory
Apply(S, push) ==
  /\ doc' = S.doc
  /\ multiSelected' = S.multi
  /\ selectedEl' = S.prim
  /\ IF push THEN pushHistory(S.doc) ELSE NoPush

\* what the handlers of this section never touch
Frame ==
  /\ probe' = Idle
  /\ UNCHANGED <<listeners, historyRef, historyIdxRef, canUndo, canRedo, timers>>

\* isTyping of the keydown handler: the key goes to the node in text-edit mode
Typing == Editing(doc) # {}

\* a shortcut pressed while typing: the handler returns before the shortcuts
KeyIgnored ==
  /\ Event("keyIgnored")
  /\ Typing
  /\ UNCHANGED <<doc, multiSelected, selectedEl, history, historyIdx>>
  /\ Frame
  /\ UNCHANGED ui

\* Delete
KeyDelete ==
  /\ Event("delete")
  /\ ~Typing
  /\ selectedEl # NoEl
  /\ multiSelected # <<>>
  /\ Apply(deleteSelected(Here), TRUE)
  /\ Frame
  /\ UNCHANGED ui

\* Ctrl+D
KeyDuplicate ==
  /\ Event("duplicate")
  /\ ~Typing
  /\ multiSelected # <<>>
  /\ LET S == duplicateSelected(Here, nextId)
     IN /\ Apply(S, TRUE)
        /\ nextId' = S.nid
  /\ Frame
  /\ UNCHANGED <<drag, didDrag, hoveredEl>>

\* Escape
KeyEscape ==
  /\ Event("escape")
  /\ ~Typing
  /\ Apply(selectElement(Here, NoEl, FALSE), FALSE)
  /\ Frame
  /\ UNCHANGED ui

\* Ctrl+A
KeySelectAll ==
  /\ Event("selectAll")
  /\ ~Typing
  /\ Apply(selectAll(Here), FALSE)
  /\ Frame
  /\ UNCHANGED ui

\* the tags handed to changeTag (typography roles)
NewTags == {"h1"}

\* changeTag(newTag), from the property panel (the focus has left the document)
TagChange ==
  \E newTag \in NewTags :
    /\ Event("changeTag")
    /\ ~Typing
    /\ isConnected(doc, selectedEl)
    /\ TagOf(doc, selectedEl) # newTag
    /\ Apply(changeTag(Here, newTag, nextId), TRUE)
    /\ nextId' = nextId + 1
    /\ Frame
    /\ UNCHANGED <<drag, didDrag, hoveredEl>>

---------------------------------------------------------------------------
(* Hover and inline text editing *)

SetCls(d, P, add, del) ==
  [i \in DOMAIN d |-> IF i \in P THEN [d[i] EXCEPT !.cls = (@ \ del) \cup add] ELSE d[i]]

\* onMouseOver with the node at position i as target
MouseOver ==
  \E i \in Targets(doc) :
    /\ Event("mouseover")
    /\ listeners > 0
    /\ IF drag.active \/ ~isEditable(doc[i].tag)
         THEN UNCHANGED <<doc, hoveredEl>>
         ELSE /\ doc' = SetCls(SetCls(doc, {PosOf(doc, hoveredEl)}, {}, {"hover"}),
                               {i}, {"hover"}, {})
              /\ hoveredEl' = RefOf(doc, i)
    /\ UNCHANGED <<multiSelected, selectedEl, history, historyIdx, drag, didDrag, nextId>>
    /\ Frame

\* onMouseOut with the node at position i as target
MouseOut ==
  \E i \in Targets(doc) :
    /\ Event("mouseout")
    /\ listeners > 0
    /\ IF drag.active
         THEN UNCHANGED <<doc, hoveredEl>>
         ELSE /\ doc' = SetCls(doc, {i}, {}, {"hover"})
              /\ hoveredEl' = IF hoveredEl = RefOf(doc, i) THEN NoEl ELSE hoveredEl
    /\ UNCHANGED <<multiSelected, selectedEl, history, historyIdx, drag, didDrag, nextId>>
    /\ Frame

\* onDblClick with the node at position i as target
onDblClick(d, i) ==
  IF ChildrenPos(d, i) = <<>> /\ isEditable(d[i].tag)
    THEN [d EXCEPT ![i] = [@ EXCEPT !.ce = "true", !.cls = @ \ {"hover"}, !.blur = @ + 1]]
    ELSE d

\* a double click on the node at position i; the focus leaves a node in
\* text-edit mode that does not contain it
DblClickAt(i) ==
  /\ Event("dblclick")
  /\ listeners > 0
  /\ drag.phase = "idle"
  /\ LET B == IF Unfocused(doc, i) # {} THEN onBlur(Here, Unfocused(doc, i)) ELSE Here
     IN /\ doc' = onDblClick(B.doc, i)
        /\ multiSelected' = B.multi
        /\ selectedEl' = B.prim
        /\ IF Unfocused(doc, i) # {} THEN pushHistory(B.doc) ELSE NoPush
  /\ Frame
  /\ UNCHANGED ui

DblClick == \E i \in Targets(doc) : DblClickAt(i)

\* the node in text-edit mode loses the focus
Blur ==
  /\ Event("blur")
  /\ \E i \in Editing(doc) : doc[i].blur > 0
  /\ Apply(onBlur(Here, Editing(doc)), TRUE)
  /\ Frame
  /\ UNCHANGED ui

---------------------------------------------------------------------------
(* Drag gestures on the selection *)

VoidTags == {"img", "input", "br", "hr", "meta", "link", "area", "base", "col",
             "embed", "source", "track", "wbr"}
SkipTags == {"html", "head", "style", "script", "meta", "link", "title", "noscript"}
isContainer(tag) == tag \notin (VoidTags \cup SkipTags)

\* isDescendantOfAny(el, multi) for the element at position i: the loop starts
\* at el itself
isDescendantOfAny(d, i, m) == \E j \in SelfAndAncestors(d, i) : Has(m, RefOf(d, j))

Abs(x) == IF x < 0 THEN -x ELSE x

\* an element created by doc.createElement or by the browser's editing
Created(tag, nid, dp, c) ==
  [id |-> nid, tag |-> tag, depth |-> dp, idAttr |-> 0, style |-> 0, mTop |-> 0,
   mLeft |-> 0, url |-> FALSE, text |-> 0, ce |-> "inherit", orig |-> NoOrig,
   sel |-> FALSE, cls |-> c, blur |-> 0]

\* el.remove()
RemoveEl(d, el) == IF isConnected(d, el) THEN Cut(d, PosOf(d, el)) ELSE d

\* cleanupDrag() on the document d and the drag state dr
cleanupDrag(d, dr) ==
  LET d1 == RemoveEl(d, dr.indicator)
      d2 == SetCls(d1, {PosOf(d1, dr.targetContainer)}, {}, {"target"})
      d3 == RemoveEl(d2, dr.dragLabel)
      d4 == SetCls(d3, {i \in DOMAIN d3 : d3[i].id \in dr.dropZones}, {}, {"zone"})
  IN [doc |-> d4,
      drag |-> [dr EXCEPT !.indicator = NoEl, !.targetContainer = NoEl,
                          !.dragLabel = NoEl, !.dropZones = {}, !.insertBefore = NoEl]]

\* the pointer offsets (dx, dy) from the press point that a move event reports
Moves == { <<5, 5>>, <<6, 0>>, <<0, -6>> }

\* onMove: the drag becomes active
activate(d, dr, m, free) ==
  LET g == SetCls(d, {i \in DOMAIN d : Has(m, RefOf(d, i))}, {"ghost"}, {})
      b == SetCls(g, {1}, {"active"}, {})
      Z == IF free THEN {}
           ELSE {1} \cup {i \in DOMAIN d : /\ i > 1
                                          /\ isContainer(d[i].tag)
                                          /\ ~isDescendantOfAny(d, i, m)
                                          /\ "label" \notin d[i].cls}
  IN [doc |-> SetCls(b, Z, {"zone"}, {}),
      drag |-> [dr EXCEPT !.active = TRUE,
                          !.dropZones = @ \cup {d[i].id : i \in Z}]]

\* variant: a free move that adds the pointer offset to the present margins
freeMove_Accumulate(d, om, dx, dy) ==
  [i \in DOMAIN d |->
     IF \E k \in DOMAIN om : om[k].el = RefOf(d, i)
       THEN [d[i] EXCEPT !.mTop = @ + dy, !.mLeft = @ + dx]
       ELSE d[i]]

\* onMove, free-move mode: the margins of the pressed selection follow the pointer
freeMove(d, om, dx, dy) ==
  [i \in DOMAIN d |->
     IF \E k \in DOMAIN om : om[k].el = RefOf(d, i)
       THEN LET k == CHOOSE k \in DOMAIN om : om[k].el = RefOf(d, i)
            IN [d[i] EXCEPT !.mTop = om[k].top + dy, !.mLeft = om[k].left + dx]
       ELSE d[i]]

\* onMove: the nearest valid container at or above the element under the
\* pointer (position t), the body when there is none
containerOf(d, t, m) ==
  LET C == {j \in SelfAndAncestors(d, t) :
              isContainer(d[j].tag) /\ ~isDescendantOfAny(d, j, m)}
  IN IF C = {} THEN 1 ELSE MaxOf(C)

\* onMove: the children of the container among which the insertion point is
\* chosen (identities)
SlotIds(d, t, m) ==
  LET c == ChildrenPos(d, containerOf(d, t, m))
  IN {d[c[k]].id : k \in {k \in DOMAIN c : ~Injected(d[c[k]]) /\ ~Has(m, RefOf(d, c[k]))}}

\* onMove, container mode with the element at position t under the pointer:
\* the target container is highlighted, a new indicator is inserted before the
\* child with identity sid (at the end for 0), the drag label is created once
containerMove(d, dr, m, t, sid, nid) ==
  LET c == containerOf(d, t, m)
      cEl == RefOf(d, c)
      d1 == IF dr.targetContainer # cEl
              THEN SetCls(SetCls(d, {PosOf(d, dr.targetContainer)}, {}, {"target"}),
                          {c}, {"target"}, {})
              ELSE d
      d2 == RemoveEl(d1, dr.indicator)
      cp == PosOf(d2, cEl)
      at == IF sid = 0 THEN End(d2, cp) + 1 ELSE PosOf(d2, [g |-> 1, n |-> sid])
      d3 == InsertAt(d2, at, << Created("div", nid, d2[cp].depth + 1, {"indicator"}) >>)
      d4 == IF dr.dragLabel # NoEl THEN d3
            ELSE InsertAt(d3, Len(d3) + 1, << Created("div", nid + 1, 1, {"label"}) >>)
  IN [doc |-> d4,
      drag |-> [dr EXCEPT !.targetContainer = cEl,
                          !.indicator = [g |-> 1, n |-> nid],
                          !.insertBefore = IF sid = 0 THEN NoEl ELSE [g |-> 1, n |-> sid],
                          !.dragLabel = IF @ # NoEl THEN @ ELSE [g |-> 1, n |-> nid + 1]],
      nid |-> IF dr.dragLabel # NoEl THEN nid + 1 ELSE nid + 2]

\* onMouseDown passes its checks for the target at position i
pressAccepted(d, m, i) ==
  /\ d[i].ce # "true"
  /\ m # <<>>
  /\ isDescendantOfAny(d, i, m)

\* computed margins of a member of the selection
marginOf(d, el) ==
  IF isConnected(d, el)
    THEN [el |-> el, top |-> d[PosOf(d, el)].mTop, left |-> d[PosOf(d, el)].mLeft]
    ELSE [el |-> el, top |-> 0, left |-> 0]

\* onMouseDown with the node at position i as target; afterwards the focus
\* leaves a node in text-edit mode that does not contain the target
MouseDownAt(i, shift) ==
  /\ Event("mousedown")
  /\ listeners > 0
  /\ drag.phase = "idle"
  /\ drag' = IF pressAccepted(doc, multiSelected, i)
               THEN [drag EXCEPT !.phase = "pressed", !.reach = "none", !.shiftHeld = shift,
                                 !.origMargins = [k \in DOMAIN multiSelected |->
                                                    marginOf(doc, multiSelected[k])]]
               ELSE drag
  /\ IF Unfocused(doc, i) # {}
       THEN Apply(onBlur(Here, Unfocused(doc, i)), TRUE)
       ELSE UNCHANGED <<doc, multiSelected, selectedEl, history, historyIdx>>
  /\ Frame
  /\ UNCHANGED <<didDrag, hoveredEl, nextId>>

MouseDown == \E i \in Targets(doc), shift \in BOOLEAN : MouseDownAt(i, shift)

\* variant: a threshold that a displacement of exactly 5 passes
Exceeds_AtFive(mv) == Abs(mv[1]) >= 5 \/ Abs(mv[2]) >= 5

\* Math.abs(dx) > 5 || Math.abs(dy) > 5
Exceeds(mv) == Abs(mv[1]) > 5 \/ Abs(mv[2]) > 5

\* onMove for a pointer at offset mv from the press point, with the element at
\* position t under it (0: none, or the document element) and the insertion
\* point before the child sid (0: at the end)
onMove(mv, shiftKey, t, sid) ==
  LET starts == ~drag.active /\ Exceeds(mv)
      free == shiftKey \/ drag.shiftHeld
      A == IF starts THEN activate(doc, drag, multiSelected, free)
           ELSE [doc |-> doc, drag |-> drag]
  IN IF ~A.drag.active THEN [doc |-> doc, drag |-> drag, nid |-> nextId]
     ELSE IF free
       THEN LET c == cleanupDrag(A.doc, A.drag)
            IN [doc |-> freeMove(c.doc, c.drag.origMargins, mv[1], mv[2]),
                drag |-> c.drag, nid |-> nextId]
     ELSE IF t = 0
       THEN LET c == cleanupDrag(A.doc, A.drag)
            IN [doc |-> c.doc, drag |-> c.drag, nid |-> nextId]
     ELSE containerMove(A.doc, A.drag, multiSelected, t, sid, nextId)

MouseMoveAt(mv, shiftKey, t, sid) ==
  /\ Event("mousemove")
  /\ drag.phase = "pressed"
  /\ LET r == onMove(mv, shiftKey, t, sid)
     IN /\ doc' = r.doc
        /\ drag' = [r.drag EXCEPT !.reach = IF @ = "far" \/ Abs(mv[1]) > 5 \/ Abs(mv[2]) > 5
                                               THEN "far" ELSE "near"]
        /\ nextId' = r.nid
        /\ didDrag' = (didDrag \/ (~drag.active /\ r.drag.active))
  /\ Frame
  /\ UNCHANGED <<multiSelected, selectedEl, history, historyIdx, hoveredEl>>

\* what the pointer can be over while the selection is (or would be) a ghost
Under(d, m) ==
  {0} \cup {t \in Targets(d) : ~isDescendantOfAny(d, t, m)}

\* the insertion points the pointer position can stand for
Slots(d, t, m) == {0} \cup (IF t = 0 THEN {} ELSE SlotIds(d, t, m))

MouseMove ==
  \E mv \in Moves, shiftKey \in BOOLEAN :
    \E t \in Under(doc, multiSelected) :
      \E sid \in Slots(doc, t, multiSelected) :
        MouseMoveAt(mv, shiftKey, t, sid)

\* onUp: the sorted selection is inserted into the target container, before
\* bEl or at the end. insertBefore / appendChild throw when the container is
\* the moved element or inside it, or when bEl is not a child of the container:
\* the handler then ends there (ok = FALSE).
RECURSIVE moveAll(_, _, _, _, _)
moveAll(d, ids, k, cEl, bEl) ==
  IF k > Len(ids) THEN [doc |-> d, ok |-> TRUE]
  ELSE LET el == [g |-> 1, n |-> ids[k]]
           i == PosOf(d, el)
           c0 == PosOf(d, cEl)
           b0 == PosOf(d, bEl)
           d1 == Cut(d, i)
           cp == PosOf(d1, cEl)
           at == IF bEl = NoEl THEN End(d1, cp) + 1 ELSE PosOf(d1, bEl)
       IN IF c0 # 0 /\ i \in SelfAndAncestors(d, c0)
            THEN [doc |-> d, ok |-> FALSE]
          ELSE IF bEl # NoEl /\ (IF c0 = 0 THEN b0 # 0 ELSE b0 = 0 \/ ParentPos(d, b0) # c0)
            THEN [doc |-> d, ok |-> FALSE]
          ELSE IF c0 = 0 THEN moveAll(d1, ids, k + 1, cEl, bEl)
          ELSE IF bEl = el THEN moveAll(d, ids, k + 1, cEl, bEl)
          ELSE moveAll(InsertAt(d1, at, Rebase(SubOf(d, i), d1[cp].depth + 1)),
                       ids, k + 1, cEl, bEl)

\* variant: onUp that does not look at dragState.active
Dragged_Always(dr) == TRUE

\* if (dragState.active) of onUp
Dragged(dr) == dr.active

\* onUp; `done` tells whether the handler reached pushHistory
onUp(S, dr) ==
  IF ~Dragged(dr)
    THEN [doc |-> S.doc, multi |-> S.multi, prim |-> S.prim, drag |-> dr, done |-> FALSE]
  ELSE LET g == SetCls(S.doc, {i \in DOMAIN S.doc : Has(S.multi, RefOf(S.doc, i))}, {}, {"ghost"})
           b == SetCls(g, {1}, {}, {"active"})
           srt == Sorted(b, S.multi)
           r == IF ~dr.shiftHeld /\ dr.targetContainer # NoEl
                  THEN moveAll(b, [k \in DOMAIN srt |-> srt[k].id], 1,
                               dr.targetContainer, dr.insertBefore)
                  ELSE [doc |-> b, ok |-> TRUE]
           c == cleanupDrag(r.doc, dr)
           R == refreshSelectedInfo([doc |-> c.doc, multi |-> S.multi, prim |-> S.prim])
       IN IF r.ok
            THEN [doc |-> R.doc, multi |-> R.multi, prim |-> R.prim,
                  drag |-> [c.drag EXCEPT !.active = FALSE], done |-> TRUE]
            ELSE [doc |-> r.doc, multi |-> S.multi, prim |-> S.prim, drag |-> dr,
                  done |-> FALSE]

MouseUp ==
  /\ Event("mouseup")
  /\ drag.phase = "pressed"
  /\ LET r == onUp(Here, drag)
     IN /\ Apply(r, r.done)
        /\ drag' = [r.drag EXCEPT !.phase = IF drag.active THEN "dropped" ELSE "released"]
  /\ Frame
  /\ UNCHANGED <<didDrag, hoveredEl, nextId>>

\* the release of a gesture is followed by no click event (the button was
\* released outside the frame, or press and release have no common element the
\* browser dispatches a click to): no handler runs, didDrag keeps its value
ReleaseWithoutClick ==
  /\ AwaitingClick
  /\ drag' = [drag EXCEPT !.phase = "idle"]
  /\ last' = "noclick"
  /\ UNCHANGED <<doc, multiSelected, selectedEl, history, historyIdx, didDrag,
                 hoveredEl, nextId, probe, ops, mode>>
  /\ UNCHANGED <<listeners, historyRef, historyIdxRef, canUndo, canRedo, timers>>

\* the browser's editing inside the node in text-edit mode: formatting the typed
\* text (Ctrl+B) wraps it in a child element
TypeMarkup ==
  \E i \in Editing(doc) :
    /\ Event("type")
    /\ drag.phase = "idle"
    /\ ChildrenPos(doc, i) = <<>>
    /\ doc' = InsertAt(doc, i + 1, << Created("b", nextId, doc[i].depth + 1, {}) >>)
    /\ nextId' = nextId + 1
    /\ Frame
    /\ UNCHANGED <<multiSelected, selectedEl, history, historyIdx, drag, didDrag, hoveredEl>>

---------------------------------------------------------------------------
(* Property panel edits of the primary element (the panel is rendered while
   an element is selected) *)

SetField(d, el, f, v) ==
  [i \in DOMAIN d |-> IF RefOf(d, i) = el THEN [d[i] EXCEPT ![f] = v] ELSE d[i]]

Field(d, el, f) == IF isConnected(d, el) THEN d[PosOf(d, el)][f] ELSE 0

\* values the user may type: the present value or the next one
ValLimit == IF mode = "cap" THEN MaxHistory + CapExtra ELSE MaxVal
Typed(cur) == {v \in {cur, cur + 1} : v <= ValLimit}

\* updateId(id)
updateId ==
  \E v \in Typed(Field(doc, selectedEl, "idAttr")) :
    /\ Event("updateId")
    /\ selectedEl # NoEl
    /\ LET d1 == SetField(doc, selectedEl, "idAttr", v)
           S == refreshSelectedInfo([doc |-> d1, multi |-> multiSelected, prim |-> selectedEl])
       IN /\ doc' = S.doc
          /\ multiSelected' = S.multi
          /\ selectedEl' = S.prim
          /\ pushHistory(d1)
    /\ probe' = Idle
    /\ UNCHANGED ui
    /\ UNCHANGED <<listeners, historyRef, historyIdxRef, canUndo, canRedo, timers>>

\* updateStyleAndSave(prop, value)
updateStyleAndSave ==
  \E v \in Typed(Field(doc, selectedEl, "style")) :
    /\ Event("updateStyleAndSave")
    /\ selectedEl # NoEl
    /\ (\E k \in DOMAIN timers : timers[k].kind = "style") \/ Len(timers) < MaxPending
    /\ LET d1 == SetField(doc, selectedEl, "style", v)
           S == refreshSelectedInfo([doc |-> d1, multi |-> multiSelected, prim |-> selectedEl])
       IN /\ doc' = S.doc
          /\ multiSelected' = S.multi
          /\ selectedEl' = S.prim
    /\ timers' = rearm(timers, "style")
    /\ probe' = Idle
    /\ UNCHANGED ui
    /\ UNCHANGED <<listeners, history, historyIdx, historyRef, historyIdxRef, canUndo, canRedo>>

\* el.textContent = text: the element's children are removed
SetText(d, el, v) ==
  LET i == PosOf(d, el)
  IN IF i = 0 THEN d
     ELSE LET keep == SelectSeq([j \in DOMAIN d |-> j], LAMBDA j : j \notin Below(d, i))
          IN [k \in DOMAIN keep |->
                IF keep[k] = i THEN [d[i] EXCEPT !.text = v] ELSE d[keep[k]]]

\* updateText(text)
updateText ==
  \E v \in Typed(Field(doc, selectedEl, "text")) :
    /\ Event("updateText")
    /\ selectedEl # NoEl
    /\ (\E k \in DOMAIN timers : timers[k].kind = "text") \/ Len(timers) < MaxPending
    /\ LET d1 == SetText(doc, selectedEl, v)
           S == refreshSelectedInfo([doc |-> d1, multi |-> multiSelected, prim |-> selectedEl])
       IN /\ doc' = S.doc
          /\ multiSelected' = S.multi
          /\ selectedEl' = S.prim
    /\ timers' = rearm(timers, "text")
    /\ probe' = Idle
    /\ UNCHANGED ui
    /\ UNCHANGED <<listeners, history, historyIdx, historyRef, historyIdxRef, canUndo, canRedo>>

\* the setTimeout(() => pushHistory(), 500) callback of a debounced edit
debounceFire ==
  /\ CanFire(1)
  /\ timers[1].kind \in {"style", "text"}
  /\ pushHistory(doc)
  /\ timers' = Tail(timers)
  /\ last' = "debounce"
  /\ UNCHANGED ui
  /\ UNCHANGED <<doc, listeners, historyRef, historyIdxRef, canUndo, canRedo,
                 multiSelected, selectedEl, probe, ops, mode>>

---------------------------------------------------------------------------
Next ==
  \/ loadProjectHtml
  \/ setupFire
  \/ Render
  \/ Click
  \/ updateId
  \/ updateStyleAndSave
  \/ updateText
  \/ debounceFire
  \/ Undo
  \/ Redo

Spec == Init /\ [][Next]_vars

---------------------------------------------------------------------------
(* Pointer and keyboard work on a page: the page has been loaded, its setup
   step has run and the state has been rendered. *)

\* body > (div > (p, p), br)
PageFile ==
  << MkNode("body", 0, FALSE), MkNode("div", 1, FALSE), MkNode("p", 2, FALSE),
     MkNode("p", 2, FALSE), MkNode("br", 1, FALSE) >>

InitPage ==
  /\ doc = docWrite(processHtmlForEditor(PageFile))
  /\ listeners = 1
  /\ history = << serializeDocument(docWrite(processHtmlForEditor(PageFile))) >>
  /\ historyIdx = 0
  /\ historyRef = history
  /\ historyIdxRef = 0
  /\ canUndo = FALSE
  /\ canRedo = FALSE
  /\ multiSelected = <<>>
  /\ selectedEl = NoEl
  /\ timers = <<>>
  /\ probe = Idle
  /\ last = "setup"
  /\ ops = 0
  /\ mode = "page"
  /\ drag = NoDrag
  /\ didDrag = FALSE
  /\ hoveredEl = NoEl
  /\ nextId = Len(PageFile) + 1

\* every event is handled after the render pass of the previous one
NextPage ==
  \/ Render
  \/ (Synced /\ Click)
  \/ (Synced /\ DblClick)
  \/ (Synced /\ Blur)
  \/ (Synced /\ MouseOver)
  \/ (Synced /\ MouseOut)
  \/ (Synced /\ KeyIgnored)
  \/ (Synced /\ KeyDelete)
  \/ (Synced /\ KeyDuplicate)
  \/ (Synced /\ KeyEscape)
  \/ (Synced /\ KeySelectAll)
  \/ (Synced /\ TagChange)

SpecPage == InitPage /\ [][NextPage]_vars

---------------------------------------------------------------------------
(* Drag gestures on a page *)

InitDrag ==
  /\ doc = docWrite(processHtmlForEditor(PageFile))
  /\ listeners = 1
  /\ history = << serializeDocument(docWrite(processHtmlForEditor(PageFile))) >>
  /\ historyIdx = 0
  /\ historyRef = history
  /\ historyIdxRef = 0
  /\ canUndo = FALSE
  /\ canRedo = FALSE
  /\ multiSelected = <<>>
  /\ selectedEl = NoEl
  /\ timers = <<>>
  /\ probe = Idle
  /\ last = "setup"
  /\ ops = 0
  /\ mode = "drag"
  /\ drag = NoDrag
  /\ didDrag = FALSE
  /\ hoveredEl = NoEl
  /\ nextId = Len(PageFile) + 1

\* every event is handled after the render pass of the previous one; the
\* click event of a gesture, when there is one, follows its release before any
\* key is handled
NextDrag ==
  \/ Render
  \/ (Synced /\ Click)
  \/ (Synced /\ DblClick)
  \/ (Synced /\ TypeMarkup)
  \/ (Synced /\ MouseDown)
  \/ (Synced /\ MouseMove)
  \/ (Synced /\ MouseUp)
  \/ (Synced /\ ~AwaitingClick /\ KeyEscape)
  \/ (Synced /\ ~AwaitingClick /\ KeyDelete)
  \/ (Synced /\ ~AwaitingClick /\ KeySelectAll)
  \/ (Synced /\ ReleaseWithoutClick)

SpecDrag == InitDrag /\ [][NextDrag]_vars

---------------------------------------------------------------------------
(* The run that fills the history: one document is loaded, its <p> is selected
   and its id is edited again and again, each edit handled after the previous
   render; once the stack is one short of its capacity, undo, redo and events
   that are handled before the render pass are allowed as well. *)

InitCap ==
  /\ doc = docWrite(processHtmlForEditor(EmptyFile))
  /\ listeners = 0
  /\ history = <<>>
  /\ historyIdx = -1
  /\ historyRef = <<>>
  /\ historyIdxRef = -1
  /\ canUndo = FALSE
  /\ canRedo = FALSE
  /\ multiSelected = <<>>
  /\ selectedEl = NoEl
  /\ timers = <<>>
  /\ probe = Idle
  /\ last = "mount"
  /\ ops = 0
  /\ mode = "cap"
  /\ drag = NoDrag
  /\ didDrag = FALSE
  /\ hoveredEl = NoEl
  /\ nextId = 2

\* the render pass has run and no timeout is pending
Settled == Synced /\ timers = <<>>

NearCap == Len(historyRef) >= MaxHistory - 1

NextCap ==
  \/ (history = <<>> /\ timers = <<>> /\ loadProjectHtml)
  \/ setupFire
  \/ Render
  \/ (selectedEl = NoEl /\ Click /\ multiSelected' = <<[g |-> 1, n |-> 2]>>)
  \/ ((Synced \/ NearCap) /\ updateId /\ doc' # doc)
  \/ (NearCap /\ Settled /\ historyIdx > Len(history) - 1 - CapUndo /\ Undo)
  \/ (NearCap /\ Settled /\ Redo)

SpecCap == InitCap /\ [][NextCap]_vars

---------------------------------------------------------------------------
(* Claims *)


\* C2: after any interleaving of commit, undo, redo and load the history index
\* satisfies -1 <= historyIdx <= Len(history) - 1, and it is -1 only when the
\* list is empty.
C2_IndexInRange ==
  /\ -1 <= historyIdx
  /\ historyIdx <= Len(history) - 1
  /\ (historyIdx = -1 => history = <<>>)

\* C3: after a sequence of edits, undo() followed by redo() (reloads settled)
\* leaves the live document serializing to the markup it serialized to right
\* after the edits, also when the last edit was a debounced one.
C3_UndoRedoRoundTrip ==
  (probe.phase = "redone" /\ Settled) => serializeDocument(doc) = probe.mark

\* C4: no two adjacent entries of the history list are content-identical.
C4_NoAdjacentDuplicates ==
  \A i \in 1..(Len(history) - 1) : history[i] # history[i + 1]

\* the stack the claim expects of a commit of snapshot s on stack h at index i
AppendAt(h, i, s) ==
  LET n == Min(i + 1, Len(h))
      t == [k \in 1..(n + 1) |-> IF k = n + 1 THEN s ELSE h[k]]
  IN IF Len(t) > MaxHistory THEN [k \in 1..(Len(t) - 1) |-> t[k + 1]] ELSE t

\* the steps in which pushHistory runs
CommitStep ==
  \/ updateId
  \/ debounceFire
  \/ \E k \in DOMAIN timers : setupFire /\ CanFire(k) /\ timers[k].kind = "setup" /\ timers[k].add

\* the snapshot of the freshly loaded project file
FirstSnapshot == serializeDocument(docWrite(processHtmlForEditor(ProjectFile)))

ReloadSetup ==
  \E k \in DOMAIN timers :
    setupFire /\ CanFire(k) /\ timers[k].kind = "setup" /\ timers[k].by \in {"undo", "redo"}

\* C7: undo and redo never change the history list, and the reload they start
\* (its delayed setup step included) commits nothing.
C7_UndoRedoKeepHistory ==
  [][(Undo \/ Redo \/ ReloadSetup) => history' = history]_vars

\* C7 witness: the setup step of an undo's reload has run and the entry undone
\* is still in the list, after the index.
C7_Witness ==
  /\ last = "setup"
  /\ Synced
  /\ timers = <<>>
  /\ Len(history) >= 2
  /\ historyIdx = Len(history) - 2
  /\ serializeDocument(doc) = history[historyIdx + 1]

Debounced(ts) == \E k \in DOMAIN ts : ts[k].kind \in {"style", "text"}

\* the number of timeouts of kind k among ts
Pending(ts, k) == Cardinality({j \in DOMAIN ts : ts[j].kind = k})

C8_UndoFlushesDebounce ==
  [][(undo \/ redo \/ loadProjectHtml) => ~Debounced(timers')]_vars

\* C11: the primary element is unset or a member of the selection set, and it
\* is unset whenever the set is empty.
C11_PrimaryIsMember ==
  /\ selectedEl = NoEl \/ Has(multiSelected, selectedEl)
  /\ multiSelected = <<>> => selectedEl = NoEl

\* C11 witness: the selection was deleted and the surviving sibling became the
\* only member and the primary.
C11_Witness ==
  /\ last = "delete"
  /\ Len(multiSelected) = 1
  /\ selectedEl = multiSelected[1]
  /\ isConnected(doc, selectedEl)

\* what a click on the node at position i has to do to the selection
ClickEffect(i, ctrl) ==
  LET el == RefOf(doc, i)
      before == SeqToSet(multiSelected)
      after == SeqToSet(multiSelected')
  IN IF doc[i].tag = "body" THEN after = {}
     ELSE IF ~isEditable(doc[i].tag) THEN TRUE
     ELSE IF ~ctrl THEN after = {el} /\ selectedEl' = el
     ELSE IF el \in before THEN after = before \ {el}
     ELSE after = before \cup {el} /\ selectedEl' = el

\* C12: a click on an editable node without modifier makes the selection set
\* exactly {node} with node primary; with the modifier it removes the node if it
\* is a member and otherwise adds it and makes it primary, every other
\* membership unchanged; a click on the body empties the set. (The click that
\* ends a drag is suppressed and is not meant here.)
C12_ClickSemantics ==
  [][(last' = "click" /\ ~didDrag) =>
       \A i \in Targets(doc), ctrl \in BOOLEAN :
         ClickAt(i, ctrl) => ClickEffect(i, ctrl)]_vars

\* a Ctrl-click on a member, handled by one listener set: one toggle-off
ToggleOff(i) ==
  /\ last' = "click"
  /\ listeners = 1
  /\ ~didDrag
  /\ Has(multiSelected, RefOf(doc, i))
  /\ i \in Targets(doc)
  /\ ClickAt(i, TRUE)

\* C13: whenever the selection set is non-empty the primary is its most recently
\* added current member; toggling off a non-primary member leaves the primary
\* unchanged, toggling off the primary makes the most recently added remaining
\* member primary (so after toggling in three nodes and toggling the second
\* again the set is {first, third} with the third primary).
C13_PrimaryIsLatest ==
  /\ [](multiSelected # <<>> => selectedEl = multiSelected[Len(multiSelected)])
  /\ [][\A i \in DOMAIN doc :
          ToggleOff(i) =>
            /\ multiSelected' = Without(multiSelected, RefOf(doc, i))
            /\ selectedEl # RefOf(doc, i) => selectedEl' = selectedEl
            /\ selectedEl = RefOf(doc, i) => selectedEl' = Last(multiSelected')]_vars

\* C13 witness: three nodes were toggled in and the second toggled off again:
\* the first and the third remain, the third is primary.
C13_Witness ==
  /\ last = "click"
  /\ ops = 4
  /\ Len(multiSelected) = 2
  /\ selectedEl = multiSelected[2]
  /\ \E i \in DOMAIN doc :
        /\ PosOf(doc, multiSelected[1]) < i
        /\ i < PosOf(doc, multiSelected[2])
        /\ isEditable(doc[i].tag)
        /\ ~doc[i].sel

NonEditableTags == {"html", "head", "meta", "link", "script", "style", "title", "br", "hr"}

\* C14: no node with a non-editable tag is hovered, is a member of the selection
\* set, or is one of the nodes a drag moves.
C14_NonEditableUntouched ==
  /\ \A i \in DOMAIN doc :
        doc[i].tag \in NonEditableTags =>
          /\ doc[i].cls \cap {"hover", "ghost"} = {}
          /\ ~doc[i].sel
          /\ RefOf(doc, i) # hoveredEl
          /\ ~Has(multiSelected, RefOf(doc, i))
          /\ \A k \in DOMAIN drag.origMargins : drag.origMargins[k].el # RefOf(doc, i)

\* C14 witness: the selection was deleted and the sibling that would take the
\* focus is a br: nothing is selected.
C14_Witness ==
  /\ last = "delete"
  /\ multiSelected = <<>>
  /\ \E i \in DOMAIN doc : doc[i].tag = "br" /\ doc[i].depth = 1
  /\ \A i \in DOMAIN doc : doc[i].depth = 1 => doc[i].tag = "br"

\* a move event displaced by more than 5 units on some axis
FarMove ==
  \E mv \in {m \in Moves : m[1] > 5 \/ m[1] < -5 \/ m[2] > 5 \/ m[2] < -5}, shiftKey \in BOOLEAN :
    \E t \in Under(doc, multiSelected) :
      \E sid \in Slots(doc, t, multiSelected) : MouseMoveAt(mv, shiftKey, t, sid)

\* a move event displaced by at most 5 units on both axes
NearMove ==
  \E mv \in {m \in Moves : m[1] <= 5 /\ m[1] >= -5 /\ m[2] <= 5 /\ m[2] >= -5}, shiftKey \in BOOLEAN :
    \E t \in Under(doc, multiSelected) :
      \E sid \in Slots(doc, t, multiSelected) : MouseMoveAt(mv, shiftKey, t, sid)

Shown(d) == \E i \in DOMAIN d : Injected(d[i])

\* C17: Escape during an active drag cancels it: the selection is cleared, the
\* drag is no longer active, no node changes parent, position or offsets; the
\* moves that follow change nothing and the release mutates and commits nothing.
C17_EscapeCancelsDrag ==
  /\ [][(drag.active /\ drag.phase = "pressed" /\ last' = "escape") =>
          /\ ~drag'.active
          /\ multiSelected' = <<>>
          /\ ~Shown(doc')]_vars
  /\ [][(drag.active /\ drag.phase = "pressed" /\ last = "escape"
            /\ last' \in {"mousemove", "mouseup"}) =>
          /\ serializeDocument(doc') = serializeDocument(doc)
          /\ ~Shown(doc')
          /\ history' = history]_vars

C19_NoDragWhileEditing == ~(drag.active /\ drag.phase = "pressed" /\ Editing(doc) # {})

\* the operations that come from the keyboard, the toolbar or the property panel
OtherOps == {"delete", "duplicate", "selectAll", "undo", "redo", "changeTag",
             "updateId", "updateStyleAndSave", "updateText"}

\* C20: while a drag is active or a node is in text-edit mode, no keyboard,
\* toolbar or panel operation changes the tree or the history.
C20_GestureExcludesOtherOps ==
  [][(((drag.active /\ drag.phase = "pressed") \/ Editing(doc) # {})
        /\ last' \in OtherOps) =>
       /\ serializeDocument(doc') = serializeDocument(doc)
       /\ history' = history
       /\ historyIdx' = historyIdx]_vars

\* C10: after any operation every member of the selection set is attached to
\* the live document.
C10_SelectionAttached ==
  \A k \in DOMAIN multiSelected : isConnected(doc, multiSelected[k])

\* the elements whose margins the press recorded
Recorded(dr) == {dr.origMargins[k].el : k \in DOMAIN dr.origMargins}

\* C21: at the moment a drag becomes active, the nodes whose original offsets
\* were recorded at the press (the nodes a free move shifts) are exactly the
\* members of the current selection set, also when a keyboard operation changed
\* the selection between the press and the threshold crossing.
C21_DraggedIsSelection ==
  [][(~drag.active /\ drag'.active) => Recorded(drag') = SeqToSet(multiSelected')]_vars

\* parent and sibling position of every element: identities and depths in
\* document order
Shape(d) == [i \in DOMAIN d |-> <<d[i].id, d[i].depth>>]

\* the margin offsets of every element
Offsets(d) == [i \in DOMAIN d |-> <<d[i].id, d[i].mLeft, d[i].mTop>>]

\* the recorded elements in the document d have their recorded margins plus (dx, dy)
Shifted(d, om, dx, dy) ==
  \A k \in DOMAIN om :
    isConnected(d, om[k].el) =>
      /\ d[PosOf(d, om[k].el)].mLeft = om[k].left + dx
      /\ d[PosOf(d, om[k].el)].mTop = om[k].top + dy

\* C22: in a drag made with the free-move modifier held from the press on, the
\* press records each selected node's offsets; every move of the active drag
\* leaves each dragged node at its original offsets plus exactly the pointer
\* delta (dx, dy) of that move, keeps every node's parent and sibling position
\* and commits nothing; the release changes neither the tree nor the offsets
\* and records exactly one history commit, the snapshot of the document.
C22_FreeMoveOffsets ==
  /\ [][(drag.phase = "idle" /\ drag'.phase = "pressed") =>
          Shifted(doc, drag'.origMargins, 0, 0)]_vars
  /\ [][(last' = "mousemove" /\ drag.phase = "pressed" /\ drag.shiftHeld) =>
          \A mv \in Moves, shiftKey \in BOOLEAN :
            MouseMoveAt(mv, shiftKey, 0, 0) =>
              /\ Shape(doc') = Shape(doc)
              /\ history' = history /\ historyIdx' = historyIdx
              /\ drag'.active => Shifted(doc', drag.origMargins, mv[1], mv[2])
              /\ ~drag'.active => Offsets(doc') = Offsets(doc)
              /\ \A i \in DOMAIN doc :
                   RefOf(doc, i) \notin Recorded(drag) =>
                     (doc'[i].mLeft = doc[i].mLeft /\ doc'[i].mTop = doc[i].mTop)]_vars
  /\ [][(last' = "mouseup" /\ drag.phase = "pressed" /\ drag.shiftHeld /\ drag.active) =>
          /\ Shape(doc') = Shape(doc)
          /\ Offsets(doc') = Offsets(doc)
          /\ history' = Append(history, serializeDocument(doc'))
          /\ historyIdx' = historyIdx + 1]_vars

\* C22 witness: a selected node was pressed with the modifier held, moved past
\* the threshold and then to (5, 5) and released: it stands at offsets (5, 5)
\* in the tree of the loaded page, and the one snapshot recorded holds them.
C22_Witness ==
  /\ last = "mouseup"
  /\ ops = 5
  /\ drag.phase = "dropped"
  /\ drag.shiftHeld
  /\ Shape(doc) = Shape(docWrite(processHtmlForEditor(PageFile)))
  /\ Len(multiSelected) = 1
  /\ isConnected(doc, multiSelected[1])
  /\ doc[PosOf(doc, multiSelected[1])].mLeft = 5
  /\ doc[PosOf(doc, multiSelected[1])].mTop = 5
  /\ Len(history) = 2
  /\ history[2] = serializeDocument(doc)
  /\ history[2][PosOf(doc, multiSelected[1])].mLeft = 5

\* every element of d that is still in e has the margins it has in d
SameOffsets(d, e) ==
  \A i \in DOMAIN d :
    isConnected(e, RefOf(d, i)) =>
      /\ e[PosOf(e, RefOf(d, i))].mLeft = d[i].mLeft
      /\ e[PosOf(e, RefOf(d, i))].mTop = d[i].mTop

\* the elements of d other than the injected ones, with their depths
Tree(d) == Shape(SelectSeq(d, LAMBDA nd : ~Injected(nd)))

\* C23: the mode of a pointer-move depends only on the modifier at that event
\* (a move without the modifier changes no offsets), and a drag never applies
\* both a free-move offset change and a reparent: a release that moves a node in
\* the tree leaves every dragged node at the offsets recorded at the press.
C23_NoMixedModes ==
  /\ [][(last' = "mousemove" /\ drag.phase = "pressed") =>
          \A mv \in Moves :
            \A t \in Under(doc, multiSelected) :
              \A sid \in Slots(doc, t, multiSelected) :
                MouseMoveAt(mv, FALSE, t, sid) => SameOffsets(doc, doc')]_vars
  /\ [][(last' = "mouseup" /\ drag.phase = "pressed" /\ Tree(doc') # Tree(doc)) =>
          Shifted(doc', drag.origMargins, 0, 0)]_vars

\* the document order describes a tree rooted at the body: every other element
\* has exactly one parent, and every element occurs once
IsTree(d) ==
  /\ Len(d) >= 1
  /\ d[1].depth = 0
  /\ \A i \in 2..Len(d) : d[i].depth >= 1 /\ d[i].depth <= d[i - 1].depth + 1
  /\ \A i, j \in DOMAIN d : d[i].id = d[j].id => i = j

\* C24: in every state of a reparent drag the candidate container is in the
\* document, is a valid container (no void or structural-metadata tag), is not
\* one of the dragged nodes and not a descendant of one; the document is a tree
\* in every state.
C24_CandidateIsValid ==
  /\ (drag.active /\ drag.targetContainer # NoEl) =>
        /\ isConnected(doc, drag.targetContainer)
        /\ isContainer(TagOf(doc, drag.targetContainer))
        /\ ~isDescendantOfAny(doc, PosOf(doc, drag.targetContainer), multiSelected)
  /\ IsTree(doc)

\* the dragged nodes that are not inside another dragged node
Topmost(d, m) ==
  {x \in DOMAIN d : /\ Has(m, RefOf(d, x))
                    /\ \A j \in SelfAndAncestors(d, x) \ {x} : ~Has(m, RefOf(d, j))}

\* the insertion point onMove computes for a pointer inside the box of the node
\* at position x (block layout): the first following sibling that is neither
\* dragged nor injected, none when there is no such sibling
NextSlot(d, x, m) ==
  LET c == ChildrenPos(d, ParentPos(d, x))
      F == {c[k] : k \in {k \in DOMAIN c : /\ c[k] > x
                                          /\ ~Injected(d[c[k]])
                                          /\ ~Has(m, RefOf(d, c[k]))}}
  IN IF F = {} THEN NoEl ELSE RefOf(d, MinOf(F))

\* the last move of the drag had the pointer over a dragged node or inside one:
\* the ghosts let the pointer through to the parent of the topmost dragged node
ReleasedOver(d, dr, m) ==
  \E x \in Topmost(d, m) :
    /\ x > 1
    /\ dr.targetContainer = RefOf(d, ParentPos(d, x))
    /\ dr.insertBefore = NextSlot(d, x, m)

\* C25: a reparent drag released with the pointer over one of the dragged nodes
\* or over a descendant of one leaves the tree unchanged: the markup serialized
\* after the release equals the markup serialized before it.
C25_SelfDropKeepsTree ==
  [][(last' = "mouseup" /\ drag.phase = "pressed" /\ drag.active /\ ~drag.shiftHeld
        /\ ReleasedOver(doc, drag, multiSelected)) =>
       serializeDocument(doc') = serializeDocument(doc)]_vars

\* the identities of the child elements of the node at position c, in order
ChildIds(d, c) == [k \in DOMAIN ChildrenPos(d, c) |-> d[ChildrenPos(d, c)[k]].id]

\* in the document e the elements with identities ids (in that order) are
\* consecutive children of the element cEl, directly before the child bEl, or
\* the last children when bEl is none
PlacedIn(e, ids, cEl, bEl) ==
  LET kids == ChildIds(e, PosOf(e, cEl))
      n == Len(ids)
  IN /\ isConnected(e, cEl)
     /\ \E k \in 0..(Len(kids) - n) :
          /\ \A j \in 1..n : kids[k + j] = ids[j]
          /\ IF bEl = NoEl THEN k + n = Len(kids)
             ELSE k + n < Len(kids) /\ kids[k + n + 1] = bEl.n

\* C26: after the release of a reparent drag of a selection of several nodes,
\* all dragged nodes are children of the candidate container of the last move,
\* directly before the insertion point (at the end when there is none), in the
\* relative document order they had before the release, whatever the order of
\* their selection.
C26_DropKeepsDocumentOrder ==
  [][(last' = "mouseup" /\ drag.phase = "pressed" /\ drag.active /\ ~drag.shiftHeld
        /\ drag.targetContainer # NoEl /\ Len(multiSelected) >= 2) =>
       LET srt == SelectSeq(doc, LAMBDA nd : Has(multiSelected, [g |-> 1, n |-> nd.id]))
       IN PlacedIn(doc', [k \in DOMAIN srt |-> srt[k].id],
                   drag.targetContainer, drag.insertBefore)]_vars

\* the release of the gesture in progress
Release == last' = "mouseup" /\ drag.phase = "pressed"

\* C27: the release of a drag that became active records exactly one history
\* commit, the snapshot of the document it leaves, in reparent and in free-move
\* mode, for one node or many; the moves of a gesture record none, and neither
\* does the release of a gesture that never became active or that Escape has
\* just cancelled.
C27_OneCommitPerDrag ==
  /\ [][(Release /\ drag.active /\ last # "escape") =>
          /\ history' = Append(history, serializeDocument(doc'))
          /\ historyIdx' = historyIdx + 1]_vars
  /\ [][(Release /\ (~drag.active \/ last = "escape")) =>
          (history' = history /\ historyIdx' = historyIdx)]_vars
  /\ [][(last' = "mousemove") => (history' = history /\ historyIdx' = historyIdx)]_vars

\* the fallback the claim describes for the deletion of the selection m from d:
\* of the first deleted node (document order), the nearest following sibling
\* that survives the deletion and can be selected, else the nearest such
\* preceding sibling; NoEl when there is none
FallbackOf(d, m) ==
  LET D == {i \in DOMAIN d : Has(m, RefOf(d, i))}
      gone == {i \in DOMAIN d : \E j \in D : i = j \/ i \in Below(d, j)}
      f == MinOf(D)
      c == ChildrenPos(d, ParentPos(d, f))
      left == {c[k] : k \in DOMAIN c} \ gone
      sib == {j \in left : isEditable(d[j].tag)}
      next == {j \in sib : j > f}
      prev == {j \in sib : j < f}
  IN IF D = {} THEN NoEl
     ELSE IF next # {} THEN RefOf(d, MinOf(next))
     ELSE IF prev # {} THEN RefOf(d, MaxOf(prev))
     ELSE NoEl

\* C28: after the deletion of the whole selection the selection set is exactly
\* {s}, s being the next sibling, else the previous sibling, of the first deleted
\* node that survives the deletion, and it is empty only when there is no such
\* sibling; the result is a function of the set of selected nodes, not of the
\* order of their selection.
C28_DeleteSelectsSibling ==
  [][last' = "delete" =>
       multiSelected' = (IF FallbackOf(doc, multiSelected) = NoEl
                           THEN <<>> ELSE << FallbackOf(doc, multiSelected) >>)]_vars

\* C29: no snapshot in the history carries editor-only metadata: the selection
\* marker, the editor classes, the indicator and the drag label are not part of
\* a snapshot, and no node of a snapshot carries the text-edit flag
\* (contenteditable) that a double-click edit sets; the pages loaded here have
\* no contenteditable attribute of their own.
C29_SnapshotsAreClean ==
  \A k \in DOMAIN history :
    /\ DOMAIN history[k][1] = DOMAIN MkNode("body", 0, FALSE)
    /\ \A i \in DOMAIN history[k] : history[k][i].ce = "inherit"

\* the property-panel mutations of the primary element
PanelOps == {"updateId", "updateStyleAndSave", "updateText"}

\* C30: a mutation invoked while its target node is detached from the live
\* document is a no-op: it changes neither the live document nor the history
\* list or index (and schedules no commit).
C30_DetachedMutationIsNoop ==
  [][(last' \in PanelOps /\ selectedEl # NoEl /\ ~isConnected(doc, selectedEl)) =>
       /\ serializeDocument(doc') = serializeDocument(doc)
       /\ history' = history
       /\ historyIdx' = historyIdx
       /\ timers' = timers]_vars

\* the setup step of a load requested by loadProjectHtml
LoadSetup ==
  \E k \in DOMAIN timers :
    setupFire /\ CanFire(k) /\ timers[k].kind = "setup" /\ timers[k].by = "load"

\* C31: loading a document clears the history: when the setup step of the load
\* has run, the history holds exactly one snapshot, that of the loaded document,
\* the index is 0 and canUndo and canRedo are false; no snapshot of the previous
\* document remains.
C31_LoadClearsHistory ==
  [][LoadSetup =>
       /\ history' = << serializeDocument(doc') >>
       /\ historyIdx' = 0
       /\ ~canUndo' /\ ~canRedo']_vars

\* load(markup): the markup is processed for the editor and written to the iframe
load(html) == docWrite(processHtmlForEditor(html))

\* C32: for every tree T reached through the editor's own mutations (reparenting
\* a node into any valid container included), serialize(load(serialize(T)))
\* equals serialize(T).
C32_RoundTripStable ==
  serializeDocument(load(serializeDocument(doc))) = serializeDocument(doc)

\* C33: a double click on a childless editable node puts it in text-edit mode,
\* a double click on a node with children or on a non-editable node does not;
\* when the node in text-edit mode loses the focus it leaves the mode and
\* exactly one history commit is recorded, however many times the node was
\* double-clicked before.
C33_TextEditCommitsOnce ==
  /\ [][last' = "dblclick" =>
          \A i \in Targets(doc) :
            DblClickAt(i) =>
              /\ IF ChildrenPos(doc, i) = <<>> /\ isEditable(doc[i].tag)
                   THEN doc'[i].ce = "true"
                   ELSE doc'[i].ce = doc[i].ce
              /\ Unfocused(doc, i) # {} =>
                   /\ \A j \in Unfocused(doc, i) : doc'[j].ce = "false"
                   /\ Len(history') = Len(history) + 1
                   /\ SubSeq(history', 1, Len(history)) = history
                   /\ historyIdx' = historyIdx + 1]_vars
  /\ [][last' = "blur" =>
          /\ Editing(doc') = {}
          /\ history' = Append(history, serializeDocument(doc'))
          /\ historyIdx' = historyIdx + 1]_vars

\* C33 witness: a node was double-clicked twice and then lost the focus: it is
\* out of text-edit mode and the history holds the loaded page and one commit.
C33_Witness ==
  /\ last = "blur"
  /\ ops = 3
  /\ Len(history) = 2
  /\ historyIdx = 1
  /\ Editing(doc) = {}
  /\ hoveredEl = NoEl
  /\ multiSelected = <<>>
  /\ \E i \in DOMAIN doc : doc[i].ce = "false" /\ doc[i].blur = 0
  /\ history[2] = serializeDocument(doc)

\* the nodes that carry the hover class
Hovered(d) == {d[i].id : i \in {j \in DOMAIN d : "hover" \in d[j].cls}}

\* C34: a node becomes hovered only by a pointer-enter on an editable node
\* while no drag is active and no node is in text-edit mode; at most one node
\* is hovered at any time; a pointer-leave from the hovered node leaves no node
\* hovered.
C34_HoverIsExclusive ==
  /\ [](Cardinality(Hovered(doc)) <= 1)
  /\ [][Hovered(doc') \ Hovered(doc) # {} =>
          /\ last' = "mouseover"
          /\ ~drag.active
          /\ Editing(doc) = {}
          /\ \A i \in DOMAIN doc' :
               doc'[i].id \in Hovered(doc') \ Hovered(doc) => isEditable(doc'[i].tag)]_vars
  /\ [][(last' = "mouseout" /\ hoveredEl # NoEl /\ hoveredEl' = NoEl) =>
          Hovered(doc') = {}]_vars

\* C35: after a move in container mode the insertion point is a child of the
\* candidate container that is neither a dragged node nor an injected element,
\* with the indicator placed right before it, or the end of the container (the
\* indicator is then its last child, the drag label aside).
C35_InsertionPoint ==
  [][(last' = "mousemove" /\ drag'.indicator # NoEl) =>
       LET c == PosOf(doc', drag'.targetContainer)
           ip == PosOf(doc', drag'.indicator)
           b == drag'.insertBefore
       IN /\ ParentPos(doc', ip) = c
          /\ IF b = NoEl
               THEN \A j \in (ip + 1)..End(doc', c) : Injected(doc'[j])
               ELSE /\ PosOf(doc', b) = ip + 1
                    /\ ParentPos(doc', ip + 1) = c
                    /\ ~Injected(doc'[ip + 1])
                    /\ "ghost" \notin doc'[ip + 1].cls]_vars

\* the nodes of d that carry one of the classes in K
Marked(d, K) == {i \in DOMAIN d : d[i].cls \cap K # {}}

\* C36: at most one insertion indicator exists and at most one node carries the
\* drop-target highlight; once a gesture has ended (the button was released, or
\* Escape was pressed) no indicator, drag label, drop-target highlight,
\* drop-zone mark or ghost mark remains and the drag is not active.
C36_NoDragResidue ==
  /\ Cardinality(Marked(doc, {"indicator"})) <= 1
  /\ Cardinality(Marked(doc, {"target"})) <= 1
  /\ (drag.phase # "pressed" \/ last = "escape") =>
       /\ Marked(doc, {"indicator", "label", "target", "zone", "ghost"}) = {}
       /\ ~drag.active

\* C37: a node of the live document carries the selected mark if and only if it
\* is a member of the selection set.
C37_MarkIffSelected ==
  \A i \in DOMAIN doc : doc[i].sel <=> Has(multiSelected, RefOf(doc, i))

\* C38: every history operation acts on the result of the previous one, synced
\* mirrors or not: a commit appends its snapshot after the entry at the present
\* index, and an undo with an entry to go back to lowers the index by one.
C38_HistoryOpsCompose ==
  /\ [][last' \in {"updateId", "debounce"} =>
          /\ history' = pushHistoryList(history, historyIdx, serializeDocument(doc'))
          /\ historyIdx' = Len(history') - 1]_vars
  /\ [][last' = "undo" =>
          historyIdx' = IF historyIdx > 0 THEN historyIdx - 1 ELSE historyIdx]_vars

\* C39: at most one set of interaction listeners is attached to the live
\* document, so a click is handled by exactly one onClick: the selection after
\* the click is the one a single handler leaves.
C39_OneListenerSet ==
  /\ [](listeners <= 1)
  /\ [][(last' = "click" /\ listeners > 0) =>
          \A i \in Targets(doc), ctrl \in BOOLEAN :
            (ClickAt(i, ctrl) /\ ~Suppressed /\ Unfocused(doc, i) = {}) =>
              multiSelected' = onClick(Here, i, ctrl).multi]_vars

\* C40: a click that does not end a drag is never suppressed: whatever gestures
\* came before (a drag whose release was followed by no click included), it
\* has the select / toggle effect of a click.
C40_SuppressionIsConsumed ==
  [][(last' = "click" /\ drag.phase # "dropped") =>
       /\ ~Suppressed
       /\ \A i \in Targets(doc), ctrl \in BOOLEAN :
            ClickAt(i, ctrl) => ClickEffect(i, ctrl)]_vars

====
